---- MODULE Spec2Model ----
(***************************************************************************)
(* FlatCrawl: URL normalisation, the deduplication filter, the CSV record  *)
(* store and the scrape coordinator, with the UI collaborator that saves   *)
(* whole tables.  Definitions carry the names of the TypeScript they model.*)
(***************************************************************************)
EXTENDS Integers, Sequences, FiniteSets, TLC

VARIABLES
    table,      \* rows of the CSV file, in file order (cells as written)
    everIds,    \* every id that has been present in the CSV file so far
    pc,         \* position of the scrape command
    mode,       \* "all" (scrapeAll) or "single" (scrapeSource from main)
    idx,        \* index into Config of the source being processed
    urls,       \* what browser.executeCommand returned for the source
    totalLinks, \* scrapeAll's running total
    attempted,  \* names of the sources scrapeSource was called for, in order
    runLog,     \* per source of this run: what the pass did
    exitCode,   \* outcome of the command: "none", "ok", "fail"
    gist,       \* rows last pushed to the gist by the sync command
    csvData,    \* the UI's in-memory records
    hasChanges, \* the UI's unsaved-edit flag
    uiSteps,    \* number of syncs, page loads and edits so far
    ioFailed,   \* some access to the CSV file has failed so far
    calls,      \* number of store calls, or of scrape commands, so far
    last,       \* the last store or filter operation: inputs and result
    fileExists, \* the CSV file is present on disk
    storage,    \* "none", or "constructed" once new CsvStorage(path) returned
    writer,     \* position of a CsvStorage.write inside fs.writeFileSync
    sync,       \* GistStorage.syncContent: position, attempts made, outcome
    loader,     \* loadConfig: position, the configuration file, outcome
    browser     \* BrowserController: its browser and pages, and the
                \* position of the scrapeSource call that uses it

vars == <<table, everIds, pc, mode, idx, urls, totalLinks, attempted, runLog,
          exitCode, gist, csvData, hasChanges, uiSteps, ioFailed, calls, last,
          fileExists, storage, writer, sync, loader, browser>>

----------------------------------------------------------------------------
(* Bounds *)

MaxRecords == 3     \* rows the CSV file may hold
MaxBatch == 2       \* strings in one browser result
MaxDrafts == 2      \* drafts in one appendRecords call of the store spec
MaxUpdates == 2     \* records in one updateRecords call of the store spec
MaxCalls == 2       \* store calls in one behaviour (store and UI specs)
MaxRuns == 2        \* scrape commands in one behaviour
MaxUiSteps == 3     \* syncs, page loads and edits in one behaviour

----------------------------------------------------------------------------
(* Strings.  A URL string is kept in parsed form: whether new URL(s)      *)
(* accepts it, whether it is spelled exactly as URL.toString() would      *)
(* print it, whether its query is spelled exactly as                      *)
(* URLSearchParams.toString() would print it, its path and its query      *)
(* parameters (decoded) in order.                                         *)

Param(k, v) == [k |-> k, v |-> v]

UrlString(canon, form, path, query) ==
    [valid |-> TRUE, canon |-> canon, form |-> form, path |-> path,
     query |-> query]

NotAUrl == [valid |-> FALSE, canon |-> FALSE, form |-> FALSE, path |-> 0,
            query |-> <<>>]

\* https://x/1?searchId=a
U1a == UrlString(TRUE, TRUE, 1, <<Param("searchId", "a")>>)
\* https://x/1?searchId=b
U1b == UrlString(TRUE, TRUE, 1, <<Param("searchId", "b")>>)
\* https://x/1?searchId=a&searchId=b
U1ab == UrlString(TRUE, TRUE, 1, <<Param("searchId", "a"), Param("searchId", "b")>>)
\* https://x/1
U1 == UrlString(TRUE, TRUE, 1, <<>>)
\* https://x/2
U2 == UrlString(TRUE, TRUE, 2, <<>>)
\* HTTPS://X/2 (parses to the same URL as U2, printed differently)
U2n == UrlString(FALSE, TRUE, 2, <<>>)
\* https://x/3?q=a%20b (the serializer of URLSearchParams prints q=a+b)
U3 == UrlString(TRUE, FALSE, 3, <<Param("q", "a b")>>)
\* https://x/3?q=a%20b&searchId=a
U3s == UrlString(TRUE, FALSE, 3, <<Param("q", "a b"), Param("searchId", "a")>>)

ValidStrings == {U1a, U1b, U1ab, U1, U2, U2n, U3, U3s}
Strings == ValidStrings \cup {NotAUrl}

\* the strings the deduplication filter is given
FilterStrings == {U1a, U1b, U2, U2n, U3, U3s, NotAUrl}

\* what the browser hands back in the coordinator's runs
BrowserStrings == {U1a, U1b, NotAUrl}

\* decimal numerals: String(n) and parseInt(s, 10) on them
DecStr == <<"1", "2", "3", "4", "5", "6", "7", "8", "9", "10",
           "11", "12", "13", "14", "15", "16">>

String(n) == DecStr[n]

parseInt(s) == CHOOSE n \in 1..Len(DecStr) : DecStr[n] = s

\* a rendering of booleans that read() does not decode
BoolString_Capitalized(b) == IF b THEN "True" ELSE "False"

BoolString(b) == IF b THEN "true" ELSE "false"

Max(S) == CHOOSE m \in S : \A n \in S : n <= m

Range(s) == {s[i] : i \in 1..Len(s)}

\* sequences over S of length 0..n
SeqsUpTo(S, n) == UNION {[1..k -> S] : k \in 0..n}

----------------------------------------------------------------------------
(* Configuration: source name -> SourceConfig, in key order *)

Config == <<[name |-> "plain", removeParams |-> <<>>],
            [name |-> "kufar", removeParams |-> <<"searchId">>]>>

SourceNames == {Config[i].name : i \in 1..Len(Config)}

----------------------------------------------------------------------------
(* utils/helpers.ts, scraper/extractor.ts: pure functions *)

isValidUrl(url) == url.valid

\* a filterValidUrls that gives up the whole batch for one invalid entry
filterValidUrls_AllOrNothing(us) ==
    IF \A i \in 1..Len(us) : isValidUrl(us[i]) THEN us ELSE <<>>

filterValidUrls(us) == SelectSeq(us, isValidUrl)

\* a normalizeUrl that removes only the first parameter with a listed name
normalizeUrl_FirstOnly(url, paramsToRemove) ==
    IF Len(paramsToRemove) = 0 \/ ~isValidUrl(url)
    THEN url
    ELSE LET keep(p) == p.k \notin Range(paramsToRemove)
             has == \E i \in 1..Len(url.query) : ~keep(url.query[i])
             first == CHOOSE i \in 1..Len(url.query) :
                          /\ ~keep(url.query[i])
                          /\ \A j \in 1..(i - 1) : keep(url.query[j])
         IN  IF has
             THEN [url EXCEPT !.canon = TRUE, !.form = TRUE,
                              !.query = SubSeq(url.query, 1, first - 1)
                                  \o SubSeq(url.query, first + 1, Len(url.query))]
             ELSE [url EXCEPT !.canon = TRUE]

\* a normalizeUrl without the early return for an empty parameter list
normalizeUrl_AlwaysParse(url, paramsToRemove) ==
    IF ~isValidUrl(url)
    THEN url
    ELSE LET keep(p) == p.k \notin Range(paramsToRemove)
             has == \E i \in 1..Len(url.query) : ~keep(url.query[i])
         IN  IF has
             THEN [url EXCEPT !.canon = TRUE, !.form = TRUE,
                              !.query = SelectSeq(url.query, keep)]
             ELSE [url EXCEPT !.canon = TRUE]

\* searchParams.delete rewrites the whole query with the serializer of
\* URLSearchParams; without a deletion toString() prints the parsed URL
normalizeUrl(url, paramsToRemove) ==
    IF Len(paramsToRemove) = 0 \/ ~isValidUrl(url)
    THEN url
    ELSE LET keep(p) == p.k \notin Range(paramsToRemove)
             has == \E i \in 1..Len(url.query) : ~keep(url.query[i])
         IN  IF has
             THEN [url EXCEPT !.canon = TRUE, !.form = TRUE,
                              !.query = SelectSeq(url.query, keep)]
             ELSE [url EXCEPT !.canon = TRUE]

\* a filter that compares parsed urls also when nothing is to be removed
filterNewUrls_ParsedCompare(us, existingUrls, paramsToRemove) ==
    LET href(u) == IF isValidUrl(u) THEN [u EXCEPT !.canon = TRUE] ELSE u
        normalizedExistingUrls ==
            {href(normalizeUrl(u, paramsToRemove)) : u \in existingUrls}
        isNew(u) == href(normalizeUrl(u, paramsToRemove)) \notin normalizedExistingUrls
    IN  SelectSeq(us, isNew)

\* a filter that returns the normalized urls it compared
filterNewUrls_ReturnsNormalized(us, existingUrls, paramsToRemove) ==
    LET normalizedExistingUrls ==
            {normalizeUrl(u, paramsToRemove) : u \in existingUrls}
        isNew(u) == normalizeUrl(u, paramsToRemove) \notin normalizedExistingUrls
        newUrls == SelectSeq(us, isNew)
    IN  [k \in 1..Len(newUrls) |-> normalizeUrl(newUrls[k], paramsToRemove)]

filterNewUrls(us, existingUrls, paramsToRemove) ==
    IF Len(paramsToRemove) = 0
    THEN LET isNew(u) == u \notin existingUrls
         IN  SelectSeq(us, isNew)
    ELSE LET normalizedExistingUrls ==
                 {normalizeUrl(u, paramsToRemove) : u \in existingUrls}
             isNew(u) == normalizeUrl(u, paramsToRemove) \notin normalizedExistingUrls
         IN  SelectSeq(us, isNew)

createUrlRecords(source, us, timestamp) ==
    [i \in 1..Len(us) |->
        [source |-> source, url |-> us[i], dateAdded |-> String(timestamp),
         seen |-> FALSE, ok |-> FALSE, called |-> FALSE, active |-> FALSE]]

----------------------------------------------------------------------------
(* storage/csv.ts.  A row is what csv-stringify wrote: every cell a       *)
(* string.  A record is what read() returns: the flags decoded.           *)

\* the cells of a row that came from the record itself (...record)
Cell(record, field, missing) ==
    IF field \in DOMAIN record THEN record[field] ELSE missing

\* String(record.flag): "true", "false", or "undefined" for an absent flag
FlagCell(record, field) ==
    IF field \in DOMAIN record THEN BoolString(record[field]) ELSE "undefined"

\* record.flag === 'true': false for any other token and for a column the
\* file does not have
FlagOf(record, field) ==
    field \in DOMAIN record /\ record[field] = "true"

\* a read that takes a flag for set whatever the case of its letters
read_AnyCase(rows) ==
    LET flag(record, field) ==
            field \in DOMAIN record /\ record[field] \in {"true", "TRUE"}
    IN  [i \in 1..Len(rows) |->
            [id |-> rows[i].id, source |-> rows[i].source,
             cost |-> Cell(rows[i], "cost", ""), url |-> rows[i].url,
             dateAdded |-> rows[i].dateAdded,
             seen |-> flag(rows[i], "seen"), ok |-> flag(rows[i], "ok"),
             called |-> flag(rows[i], "called"),
             active |-> flag(rows[i], "active"),
             archived |-> flag(rows[i], "archived")]]

\* record.cost || '' is the cost cell, or '' when the file has no cost
\* column
read(rows) ==
    [i \in 1..Len(rows) |->
        [id |-> rows[i].id, source |-> rows[i].source,
         cost |-> Cell(rows[i], "cost", ""), url |-> rows[i].url,
         dateAdded |-> rows[i].dateAdded,
         seen |-> FlagOf(rows[i], "seen"), ok |-> FlagOf(rows[i], "ok"),
         called |-> FlagOf(rows[i], "called"),
         active |-> FlagOf(rows[i], "active"),
         archived |-> FlagOf(rows[i], "archived")]]

write(records) ==
    [i \in 1..Len(records) |->
        [id |-> records[i].id, source |-> records[i].source,
         cost |-> Cell(records[i], "cost", ""), url |-> records[i].url,
         dateAdded |-> records[i].dateAdded,
         seen |-> FlagCell(records[i], "seen"),
         ok |-> FlagCell(records[i], "ok"),
         called |-> FlagCell(records[i], "called"),
         active |-> FlagCell(records[i], "active"),
         archived |-> FlagCell(records[i], "archived")]]

\* what a failing fs.writeFileSync leaves behind: the old file (open
\* failed, leftRows = -1) or the first leftRows of the new rows (truncated,
\* then failed part-way)
FailedWrite(old, new, leftRows) ==
    IF leftRows < 0 \/ leftRows >= Len(new) THEN old
    ELSE SubSeq(new, 1, leftRows)

LeftRows == -1..(MaxRecords - 1)

\* what a failed write leaves behind in a store call or a pass: the old
\* file or an emptied one
PassLeftRows == {-1, 0}

\* the same, or the old rows with the first new row after them
PassLeftRowsOf(rows) == PassLeftRows \cup {Len(rows) + 1}

\* readFails: this call's read() throws
getHighestId(rows, readFails) ==
    IF readFails THEN 0
    ELSE LET records == read(rows)
         IN  IF Len(records) = 0 THEN 0
             ELSE Max({parseInt(records[i].id) : i \in 1..Len(records)})

getExistingUrls(rows, readFails) ==
    IF readFails THEN {}
    ELSE LET records == read(rows)
         IN  {records[i].url : i \in 1..Len(records)}

\* I/O faults of one store call: the first read, the read inside
\* getHighestId, the write (nothing is accessed after a failed first read)
Faults ==
    {f \in [read : BOOLEAN, readHighest : BOOLEAN, write : BOOLEAN] :
        f.read => (~f.readHighest /\ ~f.write)}

NoFault == [read |-> FALSE, readHighest |-> FALSE, write |-> FALSE]

\* an appendRecords whose catch block logs the failed write and returns
appendRecords_SwallowWrite(rows, newRecords, f, leftRows) ==
    IF f.read
    THEN [threw |-> TRUE, ret |-> <<>>, rows |-> rows, storageFailed |-> TRUE,
          writes |-> 0]
    ELSE LET records == read(rows)
             highestId == getHighestId(rows, f.readHighest)
             recordsToAdd ==
                 [index \in 1..Len(newRecords) |->
                     [id |-> String(highestId + index)] @@ newRecords[index]]
             updatedRecords == records \o recordsToAdd
         IN  [threw |-> FALSE, ret |-> recordsToAdd,
              rows |-> IF f.write
                       THEN FailedWrite(rows, write(updatedRecords), leftRows)
                       ELSE write(updatedRecords),
              storageFailed |-> (f.readHighest \/ f.write), writes |-> 1]

\* result: threw, ret (the records added), rows (the file afterwards),
\* storageFailed (some access to the file failed during the call), writes
\* (the number of times write was called)
appendRecords(rows, newRecords, f, leftRows) ==
    IF f.read
    THEN [threw |-> TRUE, ret |-> <<>>, rows |-> rows, storageFailed |-> TRUE,
          writes |-> 0]
    ELSE LET records == read(rows)
             highestId == getHighestId(rows, f.readHighest)
             recordsToAdd ==
                 [index \in 1..Len(newRecords) |->
                     [id |-> String(highestId + index)] @@ newRecords[index]]
             updatedRecords == records \o recordsToAdd
         IN  IF f.write
             THEN [threw |-> TRUE, ret |-> <<>>,
                   rows |-> FailedWrite(rows, write(updatedRecords), leftRows),
                   storageFailed |-> TRUE, writes |-> 1]
             ELSE [threw |-> FALSE, ret |-> recordsToAdd,
                   rows |-> write(updatedRecords),
                   storageFailed |-> f.readHighest, writes |-> 1]

\* Map.set on a Map kept as the sequence of its values in key order
MapSet(m, record) ==
    IF \E i \in 1..Len(m) : m[i].id = record.id
    THEN [i \in 1..Len(m) |-> IF m[i].id = record.id THEN record ELSE m[i]]
    ELSE Append(m, record)

RECURSIVE MapSetAll(_, _)
MapSetAll(m, records) ==
    IF Len(records) = 0 THEN m
    ELSE MapSetAll(MapSet(m, Head(records)), Tail(records))

updateRecords(rows, updatedRecords, f, leftRows) ==
    IF f.read THEN [threw |-> TRUE, rows |-> rows, storageFailed |-> TRUE,
                    writes |-> 0]
    ELSE LET records == read(rows)
             recordMap == MapSetAll(<<>>, records)
             newRecords == MapSetAll(recordMap, updatedRecords)
         IN  IF f.write
             THEN [threw |-> TRUE,
                   rows |-> FailedWrite(rows, write(newRecords), leftRows),
                   storageFailed |-> TRUE, writes |-> 1]
             ELSE [threw |-> FALSE, rows |-> write(newRecords),
                   storageFailed |-> FALSE, writes |-> 1]

Ids(rows) == {rows[i].id : i \in 1..Len(rows)}

----------------------------------------------------------------------------
(* The store on its own: any caller, any arguments *)

Drafts == {createUrlRecords("kufar", <<u>>, 1)[1] : u \in {U1a, U2}}

\* the ids updateRecords arguments carry
UpsertIds == {"1", "2"}

\* the records a caller passes to updateRecords: the dateAdded of the
\* drafts (1) or another one
UpdateRecords ==
    {r \in [id : UpsertIds, source : {"kufar"},
            cost : {""}, url : {U2}, dateAdded : {String(1), String(2)},
            seen : BOOLEAN, ok : {FALSE}, called : {FALSE}, active : {FALSE},
            archived : {FALSE}] :
        /\ r.id = "1" \/ r.seen
        /\ r.dateAdded = String(2) => (r.id = "1" /\ ~r.seen)}

Idle ==
    /\ pc = "idle" /\ mode = "none" /\ idx = 0 /\ urls = <<>>
    /\ totalLinks = 0 /\ attempted = <<>> /\ runLog = <<>>
    /\ exitCode = "none"

\* no write in progress, no sync and no configuration load under way
WriterIdle == [pc |-> "idle"]

\* no browser launched (this.browser = null), no page open, no
\* scrapeSource call under way
BrowserIdle == [pc |-> "idle", launched |-> FALSE, pages |-> 0,
                page |-> FALSE, pageOpen |-> FALSE, command |-> "none",
                failed |-> FALSE, passes |-> 0]

SyncIdle == [pc |-> "idle", attempts |-> 0, result |-> "none"]

LoaderIdle == [pc |-> "idle"]

\* the store object exists and its constructor has created the file
Constructed ==
    /\ fileExists = TRUE /\ storage = "constructed" /\ writer = WriterIdle
    /\ sync = SyncIdle /\ loader = LoaderIdle /\ browser = BrowserIdle

\* the store before the calls: new, or holding the record of one append
InitialTables ==
    {<<>>, appendRecords(<<>>, <<createUrlRecords("kufar", <<U1a>>, 1)[1]>>,
                         NoFault, -1).rows}

InitStore ==
    /\ \E rows \in InitialTables : table = rows /\ everIds = Ids(rows)
    /\ Idle /\ Constructed
    /\ gist = <<>> /\ csvData = <<>> /\ hasChanges = FALSE /\ uiSteps = 0
    /\ ioFailed = FALSE
    /\ calls = 0
    /\ last = [op |-> "none"]

UnchangedRun == UNCHANGED <<pc, mode, idx, urls, totalLinks, attempted, runLog, exitCode>>

UnchangedUI == UNCHANGED <<gist, csvData, hasChanges, uiSteps>>

UnchangedOthers == UNCHANGED <<fileExists, storage, writer, sync, loader, browser>>

StoreAppend ==
    \E newRecords \in SeqsUpTo(Drafts, MaxDrafts), f \in Faults :
        /\ calls < MaxCalls
        /\ calls' = calls + 1
        /\ Len(table) + Len(newRecords) <= MaxRecords
        /\ \E leftRows \in IF f.write THEN PassLeftRows ELSE {-1} :
            LET r == appendRecords(table, newRecords, f, leftRows)
            IN  /\ table' = r.rows
                /\ everIds' = everIds \cup Ids(r.rows)
                /\ ioFailed' = (ioFailed \/ r.storageFailed)
                /\ last' = [op |-> "appendRecords", pre |-> table,
                            arg |-> newRecords, threw |-> r.threw,
                            ret |-> r.ret, writeFailed |-> f.write,
                            writes |-> r.writes]
        /\ UnchangedRun /\ UnchangedUI /\ UnchangedOthers

StoreUpdate ==
    \E updatedRecords \in SeqsUpTo(UpdateRecords, MaxUpdates),
       f \in {g \in Faults : ~g.readHighest} :
        /\ calls < MaxCalls
        /\ calls' = calls + 1
        /\ Len(table) + Len(updatedRecords) <= MaxRecords
        /\ \E leftRows \in IF f.write THEN PassLeftRows ELSE {-1} :
            LET r == updateRecords(table, updatedRecords, f, leftRows)
            IN  /\ table' = r.rows
                /\ everIds' = everIds \cup Ids(r.rows)
                /\ ioFailed' = (ioFailed \/ r.storageFailed)
                /\ last' = [op |-> "updateRecords", pre |-> table,
                            arg |-> updatedRecords, threw |-> r.threw,
                            writeFailed |-> f.write, writes |-> r.writes]
        /\ UnchangedRun /\ UnchangedUI /\ UnchangedOthers

NextStore == StoreAppend \/ StoreUpdate

SpecStore == InitStore /\ [][NextStore]_vars

----------------------------------------------------------------------------
(* The CSV file under one CsvStorage object: construction, read, write as  *)
(* the two steps of fs.writeFileSync (open with truncation, then the       *)
(* data), the file removed from outside, and the sync command of another   *)
(* process reading the file.                                               *)

MaxWrites == 2      \* writes and removals of the file in one behaviour

\* well-formed records handed to write
FileRecords ==
    {[id |-> "1", source |-> "kufar", cost |-> "", url |-> U2,
      dateAdded |-> String(1), seen |-> TRUE, ok |-> FALSE, called |-> TRUE,
      active |-> FALSE, archived |-> TRUE],
     [id |-> "2", source |-> "plain", cost |-> "9", url |-> U1a,
      dateAdded |-> String(2), seen |-> FALSE, ok |-> TRUE, called |-> FALSE,
      active |-> TRUE, archived |-> FALSE]}

InitFile ==
    /\ table = <<>>
    /\ everIds = {}
    /\ Idle
    /\ gist = <<>> /\ csvData = <<>> /\ hasChanges = FALSE /\ uiSteps = 0
    /\ ioFailed = FALSE
    /\ calls = 0
    /\ last = [op |-> "none"]
    /\ fileExists \in BOOLEAN
    /\ storage = "none" /\ writer = WriterIdle
    /\ sync = SyncIdle /\ loader = LoaderIdle /\ browser = BrowserIdle

UnchangedStoreGhosts == UNCHANGED <<everIds, sync, loader, browser>>

\* new CsvStorage(csvPath): ensureFileExists writes the header when the
\* file is missing
Construct ==
    \E createFails \in BOOLEAN :
        /\ storage = "none"
        /\ IF fileExists
           THEN /\ storage' = "constructed"
                /\ UNCHANGED <<fileExists, table, ioFailed>>
           ELSE IF createFails
           THEN /\ ioFailed' = TRUE
                /\ UNCHANGED <<storage, fileExists, table>>
           ELSE /\ storage' = "constructed"
                /\ fileExists' = TRUE
                /\ table' = <<>>
                /\ UNCHANGED ioFailed
        /\ last' = [op |-> "construct",
                    threw |-> (~fileExists /\ createFails)]
        /\ UNCHANGED <<writer, gist, calls>>
        /\ UNCHANGED <<csvData, hasChanges, uiSteps>>
        /\ UnchangedRun /\ UnchangedStoreGhosts

\* the file is removed by something other than the store
Unlink ==
    /\ fileExists /\ writer = WriterIdle
    /\ calls < MaxWrites
    /\ calls' = calls + 1
    /\ fileExists' = FALSE
    /\ table' = <<>>
    /\ last' = [op |-> "unlink"]
    /\ UNCHANGED <<storage, writer, gist, ioFailed>>
    /\ UNCHANGED <<csvData, hasChanges, uiSteps>>
    /\ UnchangedRun /\ UnchangedStoreGhosts

\* CsvStorage.read: readFileSync throws on a missing file and the catch
\* block rethrows; nothing recreates the file
FileRead ==
    \E readFails \in BOOLEAN :
        LET threw == ~fileExists \/ readFails
        IN  /\ storage = "constructed" /\ writer = WriterIdle
            /\ last' = [op |-> "read", existed |-> fileExists,
                        threw |-> threw,
                        ret |-> IF threw THEN <<>> ELSE read(table),
                        afterWrite |-> (last.op = "write" /\ ~last.threw),
                        written |-> IF last.op = "write" /\ ~last.threw
                                    THEN last.arg ELSE <<>>]
            /\ ioFailed' = (ioFailed \/ threw)
            /\ UNCHANGED <<table, fileExists, storage, writer, gist, calls>>
            /\ UNCHANGED <<csvData, hasChanges, uiSteps>>
            /\ UnchangedRun /\ UnchangedStoreGhosts

\* CsvStorage.write, first half: writeFileSync opens the file, which
\* creates or truncates it, or fails to
WriteBegin ==
    \E records \in SeqsUpTo(FileRecords, MaxUpdates), openFails \in BOOLEAN :
        /\ storage = "constructed" /\ writer = WriterIdle
        /\ calls < MaxWrites
        /\ calls' = calls + 1
        /\ IF openFails
           THEN /\ last' = [op |-> "write", threw |-> TRUE, arg |-> records]
                /\ ioFailed' = TRUE
                /\ UNCHANGED <<table, fileExists, writer>>
           ELSE /\ last' = [op |-> "writing"]
                /\ writer' = [pc |-> "truncated", pre |-> table,
                              arg |-> records, rows |-> write(records)]
                /\ fileExists' = TRUE
                /\ table' = <<>>
                /\ UNCHANGED ioFailed
        /\ UNCHANGED <<storage, gist>>
        /\ UNCHANGED <<csvData, hasChanges, uiSteps>>
        /\ UnchangedRun /\ UnchangedStoreGhosts

\* CsvStorage.write, second half: the data is written, or the write fails
\* part-way and the catch block rethrows
WriteEnd ==
    \E leftRows \in LeftRows :
        LET failed == leftRows >= 0 /\ leftRows < Len(writer.rows)
        IN  /\ writer.pc = "truncated"
            /\ leftRows >= 0 => failed
            /\ table' = IF failed THEN FailedWrite(table, writer.rows, leftRows)
                        ELSE writer.rows
            /\ last' = [op |-> "write", threw |-> failed, arg |-> writer.arg]
            /\ ioFailed' = (ioFailed \/ failed)
            /\ writer' = WriterIdle
            /\ UNCHANGED <<fileExists, storage, gist, calls>>
            /\ UNCHANGED <<csvData, hasChanges, uiSteps>>
            /\ UnchangedRun /\ UnchangedStoreGhosts

\* syncCsvToGist in the sync command's process: existsSync, readFileSync
SyncRead ==
    /\ fileExists
    /\ gist' = table
    /\ last' = [op |-> "syncRead", ret |-> table,
                during |-> (writer.pc = "truncated"),
                before |-> IF writer.pc = "truncated" THEN writer.pre ELSE table,
                after |-> IF writer.pc = "truncated" THEN writer.rows ELSE table]
    /\ UNCHANGED <<table, fileExists, storage, writer, ioFailed, calls>>
    /\ UNCHANGED <<csvData, hasChanges, uiSteps>>
    /\ UnchangedRun /\ UnchangedStoreGhosts

NextFile == Construct \/ Unlink \/ FileRead \/ WriteBegin \/ WriteEnd \/ SyncRead

SpecFile == InitFile /\ [][NextFile]_vars

\* C13: a read of the store whose file is missing does not fail: it leaves
\* the file present with only the header row and returns no records.
C13_ReadOfMissingTableBootstraps ==
    (last.op = "read" /\ ~last.existed) =>
        /\ ~last.threw
        /\ last.ret = <<>>
        /\ fileExists /\ table = <<>>

\* C14: a reader of the file at any point relative to a write observes the
\* complete table from before the write or the complete table after it.
C14_WritesAreAtomic ==
    (last.op = "syncRead" /\ last.during) =>
        last.ret \in {last.before, last.after}

\* C16: a well-formed sequence of records written with write and read back
\* with read is returned unchanged: same length, same order, every field
\* and every flag equal.
C16_WriteReadRoundTrip ==
    (last.op = "read" /\ last.afterWrite /\ ~last.threw) =>
        last.ret = last.written

\* two records, flags of both values, a cost that is empty and one that
\* is not
C16_Witness ==
    /\ last.op = "read" /\ last.afterWrite /\ ~last.threw
    /\ Len(last.written) = 2
    /\ last.written[1].seen /\ ~last.written[2].seen
    /\ last.written[1].cost = "" /\ last.written[2].cost = "9"
    /\ last.ret = last.written

----------------------------------------------------------------------------
(* read() on a file the store did not write itself: one of an older        *)
(* version, without the cost or the archived column, or one edited by      *)
(* hand, with other tokens in a flag column                                *)

MaxFileRows == 1    \* data rows of such a file

FlagTokens == {"true", "false", "TRUE", "1", ""}

\* the rows of a file with the given header
FileRows(hasCost, hasArchived) ==
    LET base == [id : {"1"}, source : {"kufar"}, url : {U2},
                 dateAdded : {String(1)}, seen : FlagTokens, ok : {"true"},
                 called : {"false"}, active : {"false"}]
        costs == IF hasCost THEN [cost : {"", "9"}] ELSE {<<>>}
        archiveds == IF hasArchived
                     THEN [archived : {"true", "false", "undefined"}]
                     ELSE {<<>>}
    IN  {b @@ c @@ a : b \in base, c \in costs, a \in archiveds}

InitRead ==
    /\ \E hasCost \in BOOLEAN, hasArchived \in BOOLEAN :
          table \in SeqsUpTo(FileRows(hasCost, hasArchived), MaxFileRows)
    /\ everIds = {}
    /\ Idle /\ Constructed
    /\ gist = <<>> /\ csvData = <<>> /\ hasChanges = FALSE /\ uiSteps = 0
    /\ ioFailed = FALSE
    /\ calls = 0
    /\ last = [op |-> "none"]

NextRead == FileRead

SpecRead == InitRead /\ [][NextRead]_vars

\* C30: read decodes what it finds: a flag is true exactly when its cell
\* is the token true, and false for every other token and for a column
\* the file lacks; a cost the file has no column for is read as the empty
\* string; one record is returned per row.
C30_LenientDecoding ==
    (last.op = "read" /\ ~last.threw) =>
        /\ Len(last.ret) = Len(table)
        /\ \A i \in 1..Len(table) :
              /\ \A flag \in {"seen", "ok", "called", "active", "archived"} :
                    /\ (flag \notin DOMAIN table[i]) => last.ret[i][flag] = FALSE
                    /\ (flag \in DOMAIN table[i]) =>
                          /\ table[i][flag] = "true" => last.ret[i][flag] = TRUE
                          /\ table[i][flag] # "true" => last.ret[i][flag] = FALSE
              /\ ("cost" \notin DOMAIN table[i]) => last.ret[i].cost = ""

\* a row of a file without cost and archived columns, with another token
\* in one flag column and true in another
C30_Witness ==
    /\ last.op = "read" /\ ~last.threw
    /\ Len(table) = 1
    /\ DOMAIN table[1] \cap {"cost", "archived"} = {}
    /\ table[1].seen = "TRUE" /\ table[1].ok = "true"
    /\ last.ret[1].seen = FALSE /\ last.ret[1].ok = TRUE
    /\ last.ret[1].archived = FALSE /\ last.ret[1].cost = ""

----------------------------------------------------------------------------
(* getHighestId on its own: any table, ids in any order *)

MaxIdRows == 3      \* rows of the table getHighestId is called on

\* the row write leaves for a record with the given id
IdRow(id) ==
    write(<<[id |-> id, source |-> "kufar", cost |-> "", url |-> U2,
             dateAdded |-> String(1), seen |-> FALSE, ok |-> FALSE,
             called |-> FALSE, active |-> FALSE, archived |-> FALSE]>>)[1]

InitHighest ==
    /\ table \in SeqsUpTo({IdRow(id) : id \in {"1", "2", "3"}}, MaxIdRows)
    /\ everIds = Ids(table)
    /\ Idle /\ Constructed
    /\ gist = <<>> /\ csvData = <<>> /\ hasChanges = FALSE /\ uiSteps = 0
    /\ ioFailed = FALSE
    /\ calls = 0
    /\ last = [op |-> "none"]

\* storage.getHighestId(), its read of the file succeeding or throwing
GetHighestId ==
    \E readFails \in BOOLEAN :
        /\ last' = [op |-> "getHighestId", readFailed |-> readFails,
                    ret |-> getHighestId(table, readFails)]
        /\ ioFailed' = (ioFailed \/ readFails)
        /\ UNCHANGED <<table, everIds, calls>>
        /\ UnchangedRun /\ UnchangedUI /\ UnchangedOthers

NextHighest == GetHighestId

SpecHighest == InitHighest /\ [][NextHighest]_vars

\* C31: getHighestId returns the greatest id of the records in the store,
\* and 0 exactly when the store holds no record.
C31_HighestIdIsMaximum ==
    last.op = "getHighestId" =>
        /\ (last.ret = 0) <=> (Len(table) = 0)
        /\ Len(table) > 0 =>
              /\ \E i \in 1..Len(table) : parseInt(table[i].id) = last.ret
              /\ \A i \in 1..Len(table) : parseInt(table[i].id) <= last.ret

----------------------------------------------------------------------------
(* scraper/index.ts (Scraper) and index.ts (the scrape command) *)

Times == {1}

\* I/O faults of one scrapeSource pass: the read in getExistingUrls and
\* the three accesses inside appendRecords
PassFaults ==
    {f \in [readExisting : BOOLEAN, read : BOOLEAN, readHighest : BOOLEAN,
            write : BOOLEAN] : f.read => (~f.readHighest /\ ~f.write)}

\* a lookup that falls back to the first source for an unknown name
ConfigIndex_FirstByDefault(source) ==
    IF source \in SourceNames
    THEN CHOOSE i \in 1..Len(Config) : Config[i].name = source
    ELSE 1

\* this.config[source]: the position of the source, 0 for undefined
ConfigIndex(source) ==
    IF source \in SourceNames
    THEN CHOOSE i \in 1..Len(Config) : Config[i].name = source
    ELSE 0

\* scrapeSource from "Filter existing URLs" on, given what extractUrls
\* returned.  Result: threw, ret (the number returned), rows (the file
\* afterwards), appended (urls of the records added), storageFailed (some
\* access to the file failed during the pass), readFailed (some read of
\* the file failed during the pass), records (what appendRecords returned)
scrapeSource(rows, sourceConfig, validUrls, timestamp, f, leftRows) ==
    IF Len(validUrls) = 0
    THEN [threw |-> FALSE, ret |-> 0, rows |-> rows, appended |-> <<>>,
          storageFailed |-> FALSE, readFailed |-> FALSE, records |-> <<>>]
    ELSE LET existingUrls == getExistingUrls(rows, f.readExisting)
             paramsToRemove == sourceConfig.removeParams
             newUrls == filterNewUrls(validUrls, existingUrls, paramsToRemove)
         IN  IF Len(newUrls) = 0
             THEN [threw |-> FALSE, ret |-> 0, rows |-> rows,
                   appended |-> <<>>, storageFailed |-> f.readExisting,
                   readFailed |-> f.readExisting, records |-> <<>>]
             ELSE LET records == createUrlRecords(sourceConfig.name, newUrls, timestamp)
                      r == appendRecords(rows, records,
                               [read |-> f.read, readHighest |-> f.readHighest,
                                write |-> f.write], leftRows)
                  IN  [threw |-> r.threw,
                       ret |-> IF r.threw THEN 0 ELSE Len(newUrls),
                       rows |-> r.rows,
                       appended |-> [k \in 1..Len(r.ret) |-> r.ret[k].url],
                       storageFailed |-> f.readExisting \/ r.storageFailed,
                       readFailed |-> f.readExisting \/ f.read
                                      \/ f.readHighest,
                       records |-> r.ret]

\* a scrapeAll without the per-source catch: the first failure ends the run
scrapeAllAfter_Abort(i, threw) ==
    IF ~threw /\ i < Len(Config)
    THEN [pc |-> "fetching", idx |-> i + 1, exitCode |-> "none"]
    ELSE [pc |-> "done", idx |-> i,
          exitCode |-> IF threw THEN "fail" ELSE "ok"]

\* scrapeAll's loop after the pass for source i: the catch block swallows
\* whatever scrapeSource threw and the loop goes on
scrapeAllAfter(i, threw) ==
    IF i < Len(Config)
    THEN [pc |-> "fetching", idx |-> i + 1, exitCode |-> "none"]
    ELSE [pc |-> "done", idx |-> i, exitCode |-> "ok"]

\* main's action for `scrape <source>`: an error exits with code 1
scrapeCommandAfter(i, threw) ==
    [pc |-> "done", idx |-> i, exitCode |-> IF threw THEN "fail" ELSE "ok"]

After(i, threw) ==
    IF mode = "all" THEN scrapeAllAfter(i, threw)
    ELSE scrapeCommandAfter(i, threw)

LogEntry(source, browserFailed, res, added) ==
    [source |-> source, browserFailed |-> browserFailed,
     storageFailed |-> res.storageFailed, threw |-> res.threw,
     appended |-> res.appended, added |-> added]

NoPass == [threw |-> TRUE, ret |-> 0, appended |-> <<>>,
           storageFailed |-> FALSE]

Init ==
    /\ table = <<>>
    /\ everIds = {}
    /\ Idle /\ Constructed
    /\ gist = <<>> /\ csvData = <<>> /\ hasChanges = FALSE /\ uiSteps = 0
    /\ ioFailed = FALSE
    /\ calls = 0
    /\ last = [op |-> "none"]

\* `scrape`: createScraper, then scrapeAll enters its loop
StartScrapeAll ==
    /\ pc \in {"idle", "done"}
    /\ calls < MaxRuns
    /\ calls' = calls + 1
    /\ mode' = "all"
    /\ idx' = 1
    /\ pc' = "fetching"
    /\ attempted' = <<Config[1].name>>
    /\ urls' = <<>> /\ totalLinks' = 0 /\ runLog' = <<>>
    /\ exitCode' = "none"
    /\ last' = [op |-> "none"]
    /\ UNCHANGED <<table, everIds, ioFailed>>
    /\ UnchangedUI /\ UnchangedOthers

\* `scrape <source>`: scrapeSource(source); an unknown name throws before
\* the browser is used
StartScrapeSource ==
    \E source \in SourceNames \cup {"nosuch"} :
        /\ pc \in {"idle", "done"}
        /\ calls < MaxRuns
        /\ calls' = calls + 1
        /\ mode' = "single"
        /\ idx' = ConfigIndex(source)
        /\ attempted' = <<source>>
        /\ urls' = <<>> /\ totalLinks' = 0
        /\ IF ConfigIndex(source) # 0
           THEN /\ pc' = "fetching"
                /\ runLog' = <<>>
                /\ exitCode' = "none"
           ELSE /\ pc' = "done"
                /\ runLog' = <<LogEntry(source, FALSE, NoPass, 0)>>
                /\ exitCode' = "fail"
        /\ last' = IF ConfigIndex(source) # 0 THEN [op |-> "none"]
                   ELSE [op |-> "scrapeSource unknown", pre |-> table,
                         source |-> source]
        /\ UNCHANGED <<table, everIds, ioFailed>>
        /\ UnchangedUI /\ UnchangedOthers

Advance(i, threw) ==
    LET a == After(i, threw)
    IN  /\ pc' = a.pc
        /\ idx' = a.idx
        /\ exitCode' = a.exitCode
        /\ attempted' = IF a.pc = "fetching"
                        THEN Append(attempted, Config[a.idx].name)
                        ELSE attempted

\* extractUrls: the browser returns a list of strings, kept when valid
ExtractOk ==
    \E raw \in SeqsUpTo(BrowserStrings, MaxBatch) :
        /\ pc = "fetching"
        /\ Len(table) + Len(raw) <= MaxRecords
        /\ urls' = filterValidUrls(raw)
        /\ pc' = "processing"
        /\ last' = [op |-> "extractUrls", raw |-> raw]
        /\ UNCHANGED <<table, everIds, mode, idx, totalLinks, attempted,
                       runLog, exitCode, ioFailed, calls>>
        /\ UnchangedUI /\ UnchangedOthers

\* extractUrls: the browser fails; scrapeSource rethrows
ExtractFails ==
    /\ pc = "fetching"
    /\ runLog' = Append(runLog, LogEntry(Config[idx].name, TRUE, NoPass, 0))
    /\ Advance(idx, TRUE)
    /\ UNCHANGED <<table, everIds, mode, urls, totalLinks, ioFailed, calls,
                   last>>
    /\ UnchangedUI /\ UnchangedOthers

\* the rest of scrapeSource and the caller's handling of its outcome
Process ==
    \E f \in PassFaults, timestamp \in Times :
      \E leftRows \in IF f.write THEN PassLeftRowsOf(table) ELSE {-1} :
        LET res == scrapeSource(table, Config[idx], urls, timestamp, f, leftRows)
        IN  /\ pc = "processing"
            /\ table' = res.rows
            /\ everIds' = everIds \cup Ids(res.rows)
            /\ ioFailed' = (ioFailed \/ res.storageFailed)
            /\ totalLinks' = IF mode = "all" THEN totalLinks + res.ret
                             ELSE totalLinks
            /\ runLog' = Append(runLog,
                   LogEntry(Config[idx].name, FALSE, res,
                            Len(res.rows) - Len(table)))
            /\ last' = [op |-> "scrapeSource", pre |-> table,
                        source |-> Config[idx].name, arg |-> urls,
                        threw |-> res.threw, ret |-> res.ret,
                        storageFailed |-> res.storageFailed,
                        readFailed |-> res.readFailed,
                        records |-> res.records, raw |-> last.raw]
            /\ Advance(idx, res.threw)
            /\ urls' = <<>>
            /\ UNCHANGED <<mode, calls>>
            /\ UnchangedUI /\ UnchangedOthers

Next == StartScrapeAll \/ StartScrapeSource \/ ExtractOk \/ ExtractFails \/ Process

Spec == Init /\ [][Next]_vars

----------------------------------------------------------------------------
(* config/index.ts and config/schema.ts: the configuration is loaded when  *)
(* the main module is imported; the scrape command runs only if the import *)
(* succeeded.                                                              *)

MaxSources == 2     \* source specs in config.json

SourceOk == [url |-> U1, command |-> "links"]

SourceNoUrl == [command |-> "links"]

SourceNoCommand == [url |-> U1]

SourceBadUrl == [url |-> NotAUrl, command |-> "links"]

SourceSpecs == {SourceOk, SourceNoUrl, SourceNoCommand, SourceBadUrl}

\* "ok", or the error thrown
validateSourceConfig(config) ==
    IF "url" \notin DOMAIN config THEN "Invalid URL"
    ELSE IF "command" \notin DOMAIN config THEN "Invalid command"
    ELSE IF ~isValidUrl(config.url) THEN "Invalid URL format"
    ELSE "ok"

\* a validation that looks at the first source only
validateDataConfig_FirstOnly(config) ==
    IF Len(config) = 0 THEN "No data sources configured"
    ELSE validateSourceConfig(config[1])

\* the sources are validated in key order; the first error is thrown
validateDataConfig(config) ==
    IF Len(config) = 0 THEN "No data sources configured"
    ELSE LET bad == {i \in 1..Len(config) : validateSourceConfig(config[i]) # "ok"}
         IN  IF bad = {} THEN "ok"
             ELSE validateSourceConfig(config[CHOOSE i \in bad : \A j \in bad : i <= j])

loadConfig(found, dataConfig) ==
    IF ~found THEN "Configuration file not found"
    ELSE validateDataConfig(dataConfig)

InitLoad ==
    /\ table = <<>>
    /\ everIds = {}
    /\ Idle
    /\ gist = <<>> /\ csvData = <<>> /\ hasChanges = FALSE /\ uiSteps = 0
    /\ ioFailed = FALSE
    /\ calls = 0
    /\ last = [op |-> "none"]
    /\ fileExists \in BOOLEAN
    /\ storage = "none" /\ writer = WriterIdle
    /\ sync = SyncIdle /\ loader = LoaderIdle /\ browser = BrowserIdle

\* import config from './config/index.js': loadConfig() runs, and throws
\* out of the import when the file is missing or a source is invalid
LoadConfig ==
    \E found \in BOOLEAN, dataConfig \in SeqsUpTo(SourceSpecs, MaxSources) :
        LET error == loadConfig(found, dataConfig)
        IN  /\ loader.pc = "idle"
            /\ loader' = [pc |-> IF error = "ok" THEN "loaded" ELSE "rejected",
                          found |-> found, dataConfig |-> dataConfig,
                          error |-> error]
            /\ exitCode' = IF error = "ok" THEN exitCode ELSE "fail"
            /\ UNCHANGED <<table, everIds, ioFailed, calls, last, fileExists,
                           storage, writer, sync, browser>>
            /\ UNCHANGED <<pc, mode, idx, urls, totalLinks, attempted, runLog>>
            /\ UnchangedUI

\* main's scrape action: createScraper constructs the CsvStorage, then
\* scrapeAll or scrapeSource(source) starts
MainScrape ==
    \E source \in SourceNames \cup {"", "nosuch"} :
        /\ loader.pc = "loaded"
        /\ pc = "idle" /\ storage = "none"
        /\ storage' = "constructed"
        /\ fileExists' = TRUE
        /\ calls' = calls + 1
        /\ mode' = IF source = "" THEN "all" ELSE "single"
        /\ idx' = IF source = "" THEN 1 ELSE ConfigIndex(source)
        /\ attempted' = IF source = "" THEN <<Config[1].name>> ELSE <<source>>
        /\ urls' = <<>> /\ totalLinks' = 0
        /\ IF source = "nosuch"
           THEN /\ pc' = "done"
                /\ runLog' = <<LogEntry(source, FALSE, NoPass, 0)>>
                /\ exitCode' = "fail"
           ELSE /\ pc' = "fetching"
                /\ runLog' = <<>>
                /\ exitCode' = "none"
        /\ last' = [op |-> "none"]
        /\ UNCHANGED <<table, everIds, ioFailed, writer, sync, loader, browser>>
        /\ UnchangedUI

NextLoad == LoadConfig \/ MainScrape \/ ExtractOk \/ ExtractFails \/ Process

SpecLoad == InitLoad /\ [][NextLoad]_vars

\* a source spec without url, without command, or with a malformed url
InvalidSourceSpec(config) ==
    \/ "url" \notin DOMAIN config
    \/ "command" \notin DOMAIN config
    \/ ~config.url.valid

\* C19: a configuration holding a source spec with a missing url, a missing
\* extraction command or a malformed url is rejected by the load, and
\* after a rejected load the browser is never invoked and the store is
\* neither constructed, read nor written.
C19_InvalidSpecRejectedAtLoad ==
    (/\ loader.pc # "idle" /\ loader.found
     /\ \E i \in 1..Len(loader.dataConfig) :
            InvalidSourceSpec(loader.dataConfig[i])) =>
        /\ loader.pc = "rejected"
        /\ pc = "idle" /\ storage = "none"
        /\ attempted = <<>> /\ runLog = <<>> /\ table = <<>>

\* the second source lacks its command; the load is rejected
C19_Witness ==
    /\ loader.pc = "rejected"
    /\ loader.found
    /\ loader.dataConfig = <<SourceOk, SourceNoCommand>>
    /\ pc = "idle" /\ storage = "none"

----------------------------------------------------------------------------
(* storage/index.ts (syncCsvToGist), storage/gist.ts (syncContent) and     *)
(* utils/helpers.ts (retry): the file's content is pushed to the gist,     *)
(* each push succeeding or failing.                                        *)

\* syncContent calls retry(fn, 3, 2000)
maxRetries == 3

\* a retry loop that runs once more than it should
retryContinues_OneMore(attempt) == attempt <= maxRetries

\* after a failed attempt the loop goes on while attempt < maxRetries
retryContinues(attempt) == attempt < maxRetries

\* what the push of one attempt returns: config.gistId when there is one,
\* else the id of the gist that attempt created
GistIdOf(hasGistId, attempt) ==
    IF hasGistId THEN "configured" ELSE String(attempt)

InitSync ==
    /\ \E records \in SeqsUpTo(UpdateRecords, MaxUpdates) : table = write(records)
    /\ everIds = {}
    /\ Idle /\ Constructed
    /\ gist = <<>> /\ csvData = <<>> /\ hasChanges = FALSE /\ uiSteps = 0
    /\ ioFailed = FALSE
    /\ calls = 0
    /\ last = [op |-> "none"]

\* syncCsvToGist up to the first attempt of retry
SyncBegin ==
    \E hasGistId \in BOOLEAN :
        /\ sync.pc = "idle"
        /\ fileExists
        /\ sync' = [pc |-> "attempting", attempts |-> 0, result |-> "none",
                    failures |-> 0, hasGistId |-> hasGistId,
                    content |-> table]
        /\ UNCHANGED <<table, everIds, ioFailed, calls, last, fileExists,
                       storage, writer, loader, browser>>
        /\ UnchangedRun /\ UnchangedUI

\* one iteration of retry's loop: updateGist or createGist succeeds or
\* throws
SyncAttempt ==
    \E pushOk \in BOOLEAN :
        LET attempt == sync.attempts + 1
        IN  /\ sync.pc = "attempting"
            /\ IF pushOk
               THEN /\ gist' = sync.content
                    /\ sync' = [sync EXCEPT !.pc = "done", !.attempts = attempt,
                                   !.result = "ok"]
                            @@ [ret |-> GistIdOf(sync.hasGistId, attempt)]
               ELSE /\ gist' = gist
                    /\ IF retryContinues(attempt)
                       THEN sync' = [sync EXCEPT !.attempts = attempt,
                                         !.failures = attempt]
                       ELSE sync' = [sync EXCEPT !.pc = "done",
                                         !.attempts = attempt,
                                         !.failures = attempt,
                                         !.result = "fail"]
                                    @@ [lastError |-> attempt]
            /\ UNCHANGED <<table, everIds, ioFailed, calls, last, fileExists,
                           storage, writer, loader, browser>>
            /\ UNCHANGED <<csvData, hasChanges, uiSteps>>
            /\ UnchangedRun

NextSync == SyncBegin \/ SyncAttempt

SpecSync == InitSync /\ [][NextSync]_vars

----------------------------------------------------------------------------
(* The deduplication filter on its own: any batch, any existing set *)

MaxLen == 2         \* strings in a batch given to filterNewUrls
MaxExisting == 2    \* urls in the existing set given to filterNewUrls

ParamLists == {<<>>, <<"searchId">>}

ExistingSets == {S \in SUBSET FilterStrings : Cardinality(S) <= MaxExisting}

InitFilter ==
    /\ table = <<>>
    /\ everIds = {}
    /\ Idle /\ Constructed
    /\ gist = <<>> /\ csvData = <<>> /\ hasChanges = FALSE /\ uiSteps = 0
    /\ ioFailed = FALSE
    /\ calls = 0
    /\ \E us \in SeqsUpTo(FilterStrings, MaxLen), existing \in ExistingSets,
          P \in ParamLists :
          last = [op |-> "input", urls |-> us, existingUrls |-> existing,
                  paramsToRemove |-> P]

FilterNew ==
    /\ last.op = "input"
    /\ last' = [op |-> "filterNewUrls", urls |-> last.urls,
                existingUrls |-> last.existingUrls,
                paramsToRemove |-> last.paramsToRemove,
                ret |-> filterNewUrls(last.urls, last.existingUrls,
                                      last.paramsToRemove)]
    /\ UNCHANGED <<table, everIds, ioFailed, calls>>
    /\ UnchangedRun /\ UnchangedUI /\ UnchangedOthers

NextFilter == FilterNew

SpecFilter == InitFilter /\ [][NextFilter]_vars

----------------------------------------------------------------------------
(* normalizeUrl on its own: any string, any parameter list, applied once   *)
(* and then once more to its own result                                    *)

NormParamLists ==
    {<<>>, <<"searchId">>, <<"q">>, <<"searchId", "q">>, <<"q", "searchId">>,
     <<"utm">>}

InitNormalize ==
    /\ table = <<>>
    /\ everIds = {}
    /\ Idle /\ Constructed
    /\ gist = <<>> /\ csvData = <<>> /\ hasChanges = FALSE /\ uiSteps = 0
    /\ ioFailed = FALSE
    /\ calls = 0
    /\ \E u \in Strings, P \in NormParamLists :
          last = [op |-> "input", url |-> u, paramsToRemove |-> P]

Normalize ==
    /\ last.op = "input"
    /\ last' = [op |-> "normalizeUrl", url |-> last.url,
                paramsToRemove |-> last.paramsToRemove,
                ret |-> normalizeUrl(last.url, last.paramsToRemove)]
    /\ UNCHANGED <<table, everIds, ioFailed, calls>>
    /\ UnchangedRun /\ UnchangedUI /\ UnchangedOthers

NormalizeAgain ==
    /\ last.op = "normalizeUrl"
    /\ last' = [op |-> "normalizeUrl twice", url |-> last.url,
                paramsToRemove |-> last.paramsToRemove,
                ret |-> last.ret,
                again |-> normalizeUrl(last.ret, last.paramsToRemove)]
    /\ UNCHANGED <<table, everIds, ioFailed, calls>>
    /\ UnchangedRun /\ UnchangedUI /\ UnchangedOthers

NextNormalize == Normalize \/ NormalizeAgain

SpecNormalize == InitNormalize /\ [][NextNormalize]_vars

\* C17: normalizeUrl is idempotent: normalizing a normalized url with the
\* same parameter list changes nothing.
C17_NormalizeIdempotent ==
    last.op = "normalizeUrl twice" => last.again = last.ret

\* a url with the parameter twice and a query the serializer rewrites
C17_Witness ==
    /\ last.op = "normalizeUrl twice"
    /\ last.url \in {U1ab, U3s}
    /\ last.paramsToRemove = <<"searchId">>
    /\ last.ret # last.url
    /\ last.again = last.ret

\* C18: normalizeUrl returns its input string unchanged whenever
\* paramsToRemove is empty or the input is not a valid url.
C18_NormalizeIdentityFallback ==
    (/\ last.op = "normalizeUrl"
     /\ (Len(last.paramsToRemove) = 0 \/ ~isValidUrl(last.url))) =>
        last.ret = last.url

\* HTTPS://X/2 with nothing to remove comes back as it was spelled
C18_Witness ==
    /\ last.op = "normalizeUrl"
    /\ last.url = U2n /\ Len(last.paramsToRemove) = 0
    /\ last.ret = U2n

\* the first occurrence of every normalized form in us, in order
RECURSIVE FirstOccurrences(_, _, _)
FirstOccurrences(us, P, seen) ==
    IF Len(us) = 0 THEN <<>>
    ELSE LET n == normalizeUrl(Head(us), P)
         IN  IF n \in seen THEN FirstOccurrences(Tail(us), P, seen)
             ELSE <<Head(us)>> \o FirstOccurrences(Tail(us), P, seen \cup {n})

\* C2: the output of filterNewUrls holds no two valid urls with equal
\* normalized forms: of a url occurring twice in a batch, or of two
\* equivalent urls, only the first occurrence is kept.
C2_NoDuplicatesWithinBatch ==
    last.op = "filterNewUrls" =>
        \A i, j \in 1..Len(last.ret) :
            (/\ isValidUrl(last.ret[i]) /\ isValidUrl(last.ret[j])
             /\ normalizeUrl(last.ret[i], last.paramsToRemove)
                  = normalizeUrl(last.ret[j], last.paramsToRemove)) => i = j

\* u and e are spelled alike except for query parameters named in P
DiffersOnlyInRemoved(u, e, P) ==
    LET keep(p) == p.k \notin Range(P)
    IN  /\ isValidUrl(u) /\ isValidUrl(e)
        /\ u.canon = e.canon /\ u.form = e.form /\ u.path = e.path
        /\ SelectSeq(u.query, keep) = SelectSeq(e.query, keep)

\* C11: with a non-empty paramsToRemove a candidate is in the output of
\* filterNewUrls only if its normalized form differs from that of every
\* existing url and is not dropped on account of existing otherwise; a
\* candidate spelled like an existing url except for removed query
\* parameters is filtered out.
C11_NormalizedMatchFiltersOut ==
    (last.op = "filterNewUrls" /\ Len(last.paramsToRemove) > 0) =>
        LET P == last.paramsToRemove
            out == Range(last.ret)
        IN  /\ \A i \in 1..Len(last.urls) :
                  last.urls[i] \in out <=>
                      \A e \in last.existingUrls :
                          normalizeUrl(last.urls[i], P) # normalizeUrl(e, P)
            /\ \A i \in 1..Len(last.urls), e \in last.existingUrls :
                  DiffersOnlyInRemoved(last.urls[i], e, P) =>
                      last.urls[i] \notin out

\* C12: with an empty paramsToRemove filterNewUrls is exact string-set
\* membership: a candidate is in the output iff the candidate string
\* itself is not a member of existing; nothing is normalized.
C12_EmptyParamsExactMembership ==
    (last.op = "filterNewUrls" /\ Len(last.paramsToRemove) = 0) =>
        /\ \A u \in Range(last.urls) :
              u \in Range(last.ret) <=> u \notin last.existingUrls
        /\ \A k \in 1..Len(last.ret) : last.ret[k] \in Range(last.urls)

\* HTTPS://X/2 is kept although https://x/2 is stored, and https://x/2
\* itself is dropped
C12_Witness ==
    /\ last.op = "filterNewUrls" /\ Len(last.paramsToRemove) = 0
    /\ last.urls = <<U2n, U2>>
    /\ U2 \in last.existingUrls /\ U2n \notin last.existingUrls
    /\ last.ret = <<U2n>>

----------------------------------------------------------------------------
(* Properties of the coordinator *)

RemoveParamsOf(source) == Config[ConfigIndex(source)].removeParams

\* C1: from an empty store, after any scrapeSource / scrapeAll runs, no two
\* records of the store have equal normalized urls under the removeParams
\* of the source that appended the later one.
C1_NoEqualNormalizedUrls ==
    \A i, j \in 1..Len(table) :
        i < j =>
            normalizeUrl(table[i].url, RemoveParamsOf(table[j].source))
              # normalizeUrl(table[j].url, RemoveParamsOf(table[j].source))

\* C5: in one scrapeAll run no source appends a url whose normalized form,
\* under that source's removeParams, equals that of a url an earlier source
\* appended in the same run.
C5_LaterSourceSeesEarlierAppends ==
    mode = "all" =>
        \A i, j \in 1..Len(runLog) :
            i < j =>
                \A a \in Range(runLog[i].appended), b \in Range(runLog[j].appended) :
                    normalizeUrl(a, RemoveParamsOf(runLog[j].source))
                      # normalizeUrl(b, RemoveParamsOf(runLog[j].source))

\* C6: in a scrapeAll run where the browser fails for a source, every
\* configured source is still attempted exactly once, in configuration
\* order, and the failed source adds no record to the store.
C6_BrowserFailureDoesNotStopRun ==
    mode = "all" =>
        /\ Len(attempted) <= Len(Config)
        /\ \A k \in 1..Len(attempted) : attempted[k] = Config[k].name
        /\ pc = "done" => Len(attempted) = Len(Config)
        /\ \A k \in 1..Len(runLog) :
              runLog[k].browserFailed =>
                  runLog[k].added = 0 /\ runLog[k].appended = <<>>

C6_Witness ==
    /\ mode = "all" /\ pc = "done"
    /\ Len(runLog) = Len(Config)
    /\ runLog[1].browserFailed
    /\ runLog[2].added > 0

\* C7: when an access to the CSV file fails while a source is processed in
\* a scrapeAll run, the run ends there with a failure outcome: no later
\* source is processed.
C7_StorageFailureEndsRun ==
    mode = "all" =>
        \A k \in 1..Len(runLog) :
            runLog[k].storageFailed =>
                /\ Len(attempted) = k
                /\ pc = "done"
                /\ exitCode = "fail"

\* C10: scraping one source against an empty store, the browser returning
\* valid urls, appends one record per distinct normalized form of the
\* batch: its first occurrence, raw, with ids 1, 2, ... in that order.
C10_EmptyStoreScrapeAppendsFirstOccurrences ==
    (last.op = "scrapeSource" /\ last.pre = <<>> /\ ~last.threw
       /\ ~last.storageFailed) =>
        LET firsts == FirstOccurrences(last.arg, RemoveParamsOf(last.source), {})
        IN  /\ Len(table) = Len(firsts)
            /\ \A k \in 1..Len(table) :
                  table[k].url = firsts[k] /\ table[k].id = String(k)

----------------------------------------------------------------------------
(* The UI collaborator: storage/index.ts (sync), ui/public/js/app.js and   *)
(* ui/server.ts (POST /api/data).  A value of the page's records is either *)
(* a boolean or a string.                                                  *)

JsBool(b) == [bool |-> b]

JsStr(str) == [str |-> str]

\* String(value)
JsString(value) ==
    IF "bool" \in DOMAIN value THEN BoolString(value.bool) ELSE value.str

\* parseCSV's conversion of one cell of a flag column
ParsedCell(cell) ==
    IF cell = "true" \/ cell = "false" THEN JsBool(cell = "true")
    ELSE JsStr(cell)

FlagFields == {"seen", "ok", "called", "active", "archived"}

parseCSV(rows) ==
    [i \in 1..Len(rows) |->
        [id |-> rows[i].id, source |-> rows[i].source,
         cost |-> rows[i].cost, url |-> rows[i].url,
         dateAdded |-> rows[i].dateAdded,
         seen |-> ParsedCell(rows[i].seen), ok |-> ParsedCell(rows[i].ok),
         called |-> ParsedCell(rows[i].called),
         active |-> ParsedCell(rows[i].active),
         archived |-> ParsedCell(rows[i].archived)]]

\* CsvStorage.write applied to the posted JSON body
writePosted(records) ==
    [i \in 1..Len(records) |->
        [id |-> records[i].id, source |-> records[i].source,
         cost |-> records[i].cost, url |-> records[i].url,
         dateAdded |-> records[i].dateAdded,
         seen |-> JsString(records[i].seen),
         ok |-> JsString(records[i].ok),
         called |-> JsString(records[i].called),
         active |-> JsString(records[i].active),
         archived |-> JsString(records[i].archived)]]

\* csvData.findIndex(r => r.id === id)
findIndex(records, id) ==
    IF \E i \in 1..Len(records) : records[i].id = id
    THEN CHOOSE i \in 1..Len(records) :
             /\ records[i].id = id
             /\ \A j \in 1..(i - 1) : records[j].id # id
    ELSE 0

\* the checkboxes the model ticks
EditFields == {"seen", "archived"}

\* syncCsvToGist: the file's content becomes the gist's
SyncToGist ==
    /\ gist # table
    /\ uiSteps < MaxUiSteps
    /\ uiSteps' = uiSteps + 1
    /\ gist' = table
    /\ UNCHANGED <<table, everIds, csvData, hasChanges, ioFailed, calls, last>>
    /\ UnchangedRun /\ UnchangedOthers

\* fetchData: the page loads the gist and parses it
UIFetchData ==
    /\ csvData # parseCSV(gist)
    /\ uiSteps < MaxUiSteps
    /\ uiSteps' = uiSteps + 1
    /\ csvData' = parseCSV(gist)
    /\ UNCHANGED <<table, everIds, gist, hasChanges, ioFailed, calls, last>>
    /\ UnchangedRun /\ UnchangedOthers

\* a checkbox of a rendered row changes
UIEdit ==
    \E row \in 1..Len(csvData), field \in EditFields, checked \in BOOLEAN :
        LET rowIndex == findIndex(csvData, csvData[row].id)
        IN  /\ uiSteps < MaxUiSteps
            /\ uiSteps' = uiSteps + 1
            /\ csvData' = [csvData EXCEPT ![rowIndex][field] = JsBool(checked)]
            /\ hasChanges' = TRUE
            /\ UNCHANGED <<table, everIds, gist, ioFailed, calls, last>>
            /\ UnchangedRun /\ UnchangedOthers

\* a saveChanges that clears hasChanges whatever the server answered
saveChanges_ClearsAlways(changes, writeFails) ==
    [sent |-> changes, hasChanges |-> FALSE]

\* saveChanges: without changes nothing is sent; hasChanges is cleared
\* after a response that is ok, and an error only shows a status
saveChanges(changes, writeFails) ==
    [sent |-> changes, hasChanges |-> changes /\ writeFails]

\* the file after POST /api/data with the page's records
PostData(writeFails, leftRows) ==
    IF writeFails THEN FailedWrite(table, writePosted(csvData), leftRows)
    ELSE writePosted(csvData)

\* a click on Save Changes: saveChanges and the server's POST /api/data
\* handler
UISave ==
    \E writeFails \in BOOLEAN :
      \E leftRows \in IF writeFails THEN LeftRows ELSE {-1} :
        LET s == saveChanges(hasChanges, writeFails)
        IN  /\ calls < MaxCalls
            /\ calls' = calls + 1
            /\ table' = IF s.sent THEN PostData(writeFails, leftRows)
                        ELSE table
            /\ everIds' = everIds \cup Ids(table')
            /\ hasChanges' = s.hasChanges
            /\ ioFailed' = (ioFailed \/ (s.sent /\ writeFails))
            /\ last' = [op |-> "saveChanges", pre |-> table,
                        unsaved |-> hasChanges, sent |-> s.sent,
                        threw |-> (s.sent /\ writeFails)]
            /\ UNCHANGED <<gist, csvData, uiSteps>>
            /\ UnchangedRun /\ UnchangedOthers

NextUI == StoreAppend \/ SyncToGist \/ UIFetchData \/ UIEdit \/ UISave

SpecUI == InitStore /\ [][NextUI]_vars

\* C8: records are never physically deleted: after any appendRecords,
\* updateRecords and UI saves, none of whose file accesses failed, every
\* id that was once in the store is still in it.
C8_RecordsNeverDeleted ==
    ~ioFailed => everIds \subseteq Ids(table)

----------------------------------------------------------------------------
(* The page on its own (ui/public/js/app.js): load, edit, archive, save    *)
(* and sync, on a store nothing else writes to                             *)

PageTables == {<<>>, <<IdRow("1")>>, <<IdRow("1"), IdRow("2")>>}

\* the ids archiveRecord is called with: of rows of the page, or of none
ArchiveIds == {"1", "2", "3"}

InitPage ==
    /\ table \in PageTables
    /\ gist = table
    /\ everIds = Ids(table)
    /\ Idle /\ Constructed
    /\ csvData = <<>> /\ hasChanges = FALSE /\ uiSteps = 0
    /\ ioFailed = FALSE
    /\ calls = 0
    /\ last = [op |-> "none"]

\* an archiveRecord that does not wait for the dialog's answer
archiveRecord_NoConfirm(records, changes, id, confirmed) ==
    LET rowIndex == findIndex(records, id)
    IN  IF rowIndex = 0
        THEN [csvData |-> records, hasChanges |-> changes]
        ELSE [csvData |-> [records EXCEPT ![rowIndex].archived = JsBool(TRUE)],
              hasChanges |-> TRUE]

\* window.archiveRecord after showConfirmDialog has resolved
archiveRecord(records, changes, id, confirmed) ==
    LET rowIndex == findIndex(records, id)
    IN  IF ~confirmed \/ rowIndex = 0
        THEN [csvData |-> records, hasChanges |-> changes]
        ELSE [csvData |-> [records EXCEPT ![rowIndex].archived = JsBool(TRUE)],
              hasChanges |-> TRUE]

\* a click on Archive and the answer to the dialog
ArchiveRecord ==
    \E id \in ArchiveIds, confirmed \in BOOLEAN :
        LET r == archiveRecord(csvData, hasChanges, id, confirmed)
        IN  /\ uiSteps < MaxUiSteps
            /\ uiSteps' = uiSteps + 1
            /\ csvData' = r.csvData
            /\ hasChanges' = r.hasChanges
            /\ last' = [op |-> "archiveRecord", id |-> id,
                        confirmed |-> confirmed, pre |-> csvData,
                        unsaved |-> hasChanges, at |-> uiSteps + 1]
            /\ UNCHANGED <<table, everIds, gist, ioFailed, calls>>
            /\ UnchangedRun /\ UnchangedOthers

\* a click on Sync to GitHub Gist: syncToGist saves first when there are
\* changes; saveChanges handles its own errors, so the POST /api/sync
\* that follows is sent whatever became of the save; the server then runs
\* the sync command, which pushes the file to the gist or fails
UISyncClick ==
    \E writeFails \in BOOLEAN, syncFails \in BOOLEAN :
      \E leftRows \in IF writeFails THEN LeftRows ELSE {-1} :
        LET s == saveChanges(hasChanges, writeFails)
            saved == IF s.sent THEN PostData(writeFails, leftRows) ELSE table
        IN  /\ calls < MaxCalls
            /\ calls' = calls + 1
            /\ table' = saved
            /\ everIds' = everIds \cup Ids(saved)
            /\ hasChanges' = s.hasChanges
            /\ ioFailed' = (ioFailed \/ (s.sent /\ writeFails))
            /\ gist' = IF syncFails THEN gist ELSE saved
            /\ last' = [op |-> "syncToGist", pre |-> table,
                        unsaved |-> hasChanges,
                        saveFailed |-> (s.sent /\ writeFails),
                        syncRequested |-> TRUE]
            /\ UNCHANGED <<csvData, uiSteps>>
            /\ UnchangedRun /\ UnchangedOthers

NextPage == UIFetchData \/ UIEdit \/ ArchiveRecord \/ UISave \/ UISyncClick

SpecPage == InitPage /\ [][NextPage]_vars

\* C34: a click on Sync with unsaved changes requests the sync only after
\* the changes were saved: when the save fails no sync is requested.
C34_SyncOnlyAfterSuccessfulSave ==
    (last.op = "syncToGist" /\ last.unsaved /\ last.saveFailed)
        => ~last.syncRequested

\* C35: saveChanges sends the save request exactly when hasChanges is
\* set; after a save the server accepted hasChanges is false, after one
\* that failed it is still true, and a click without changes alters
\* neither the flag nor the file.
C35_HasChangesTracksUnsavedEdits ==
    [][(last'.op = "saveChanges" /\ calls' = calls + 1) =>
          /\ last'.sent = hasChanges
          /\ (last'.sent /\ ~last'.threw) => ~hasChanges'
          /\ (last'.sent /\ last'.threw) => hasChanges'
          /\ ~last'.sent => (~hasChanges' /\ table' = table)]_vars

\* a save of edited records that the server could not write
C35_Witness ==
    /\ last.op = "saveChanges" /\ last.sent /\ last.threw
    /\ hasChanges
    /\ Len(csvData) > 0

\* C36: archiveRecord changes the page's state only on confirmation and
\* only for an id the page holds: then the archived flag of that record
\* is true, everything else of the records is as before, and hasChanges
\* is set; on cancel, or for an unknown id, records and hasChanges stay.
C36_ArchiveOnlyOnConfirm ==
    (last.op = "archiveRecord" /\ last.at = uiSteps) =>
        LET pre == last.pre
            hit == {i \in 1..Len(pre) : pre[i].id = last.id}
        IN  IF ~last.confirmed \/ hit = {}
            THEN csvData = pre /\ hasChanges = last.unsaved
            ELSE /\ hasChanges
                 /\ Len(csvData) = Len(pre)
                 /\ \E i \in hit :
                       /\ csvData[i] = [pre[i] EXCEPT !.archived = JsBool(TRUE)]
                       /\ \A j \in 1..Len(pre) : j # i => csvData[j] = pre[j]

\* the second of two records archived on confirmation
C36_Witness ==
    /\ last.op = "archiveRecord" /\ last.at = uiSteps
    /\ last.confirmed /\ ~last.unsaved
    /\ Len(last.pre) = 2 /\ last.id = last.pre[2].id
    /\ last.pre[2].archived = JsBool(FALSE)
    /\ csvData[2].archived = JsBool(TRUE)
    /\ csvData[1] = last.pre[1]
    /\ hasChanges

----------------------------------------------------------------------------
(* Properties of the store *)

HighestIdOf(rows) == getHighestId(rows, FALSE)

UrlsOf(records) == {records[i].url : i \in 1..Len(records)}

\* C3: after any sequence of appendRecords and updateRecords calls the ids
\* in the store are pairwise distinct, and every id appendRecords assigns
\* was never held by a record of the store before.
C3_IdsUniqueNeverReused ==
    /\ [](\A i, j \in 1..Len(table) : table[i].id = table[j].id => i = j)
    /\ [][(last'.op = "appendRecords" /\ calls' # calls /\ ~last'.threw)
            => \A k \in 1..Len(last'.ret) : last'.ret[k].id \notin everIds]_vars

\* C4: appendRecords with n drafts on a store whose highest id is h gives
\* the drafts the ids h+1 .. h+n in input order, returns those n records,
\* and leaves the old records followed by the new ones, so that the
\* existing urls afterwards are the old urls and the drafts' urls.
C4_AppendAssignsNextIds ==
    (last.op = "appendRecords" /\ ~last.threw) =>
        LET h == HighestIdOf(last.pre)
            n == Len(last.arg)
        IN  /\ Len(last.ret) = n
            /\ \A k \in 1..n :
                  last.ret[k] = [id |-> String(h + k)] @@ last.arg[k]
            /\ read(table) = read(last.pre) \o read(write(last.ret))
            /\ getExistingUrls(table, FALSE)
                 = getExistingUrls(last.pre, FALSE) \cup UrlsOf(last.arg)

\* C15: when the table write fails during appendRecords or updateRecords
\* the call throws, and write has been called exactly once.
C15_WriteFailurePropagatesNoRetry ==
    (last.op \in {"appendRecords", "updateRecords"} /\ last.writeFailed) =>
        last.threw /\ last.writes = 1

\* a failed write of both kinds of call, on a store that held a record
C15_Witness ==
    /\ last.op \in {"appendRecords", "updateRecords"}
    /\ last.writeFailed /\ last.threw /\ last.writes = 1
    /\ Len(last.pre) > 0 /\ Len(last.arg) > 0

\* C9: updateRecords(updates) leaves every update stored under its id
\* (replacing the record that had the id, or inserted when the id was not
\* present; of several updates with one id, the last) and leaves every
\* record whose id is in no update present with all its fields unchanged.
C9_UpsertReplacesInsertsKeepsOthers ==
    (last.op = "updateRecords" /\ ~last.threw) =>
        LET before == read(last.pre)
            after == read(table)
            updates == last.arg
            updateIds == {updates[k].id : k \in 1..Len(updates)}
        IN  /\ \A k \in 1..Len(updates) :
                  (\A m \in (k + 1)..Len(updates) : updates[m].id # updates[k].id)
                      => \E i \in 1..Len(after) : after[i] = updates[k]
            /\ \A i \in 1..Len(before) :
                  before[i].id \notin updateIds =>
                      \E j \in 1..Len(after) : after[j] = before[i]
            /\ \A j \in 1..Len(after) :
                  after[j].id \in updateIds \cup Ids(last.pre)

\* C21: when a read of the table fails during a scrapeSource pass (in
\* getExistingUrls, at the start of appendRecords or in getHighestId) the
\* pass appends nothing: every row of the file afterwards was a row of the
\* file before the pass.
C21_UnreadableTableAppendsNothing ==
    (last.op = "scrapeSource" /\ last.readFailed) =>
        /\ Len(table) <= Len(last.pre)
        /\ \A k \in 1..Len(table) :
              \E j \in 1..Len(last.pre) : table[k] = last.pre[j]

\* C22: the dateAdded of a record never changes: a record of the store
\* that is still in the store after a step (same id) has the dateAdded it
\* had before the step.
C22_DateAddedImmutable ==
    [][\A i \in 1..Len(table), j \in 1..Len(table') :
          table[i].id = table'[j].id
              => table'[j].dateAdded = table[i].dateAdded]_vars

\* the ids of the updates that are not ids of the store, each once, in the
\* order of their first occurrence
RECURSIVE NewIdsInOrder(_, _)
NewIdsInOrder(updates, known) ==
    IF Len(updates) = 0 THEN <<>>
    ELSE IF Head(updates).id \in known
         THEN NewIdsInOrder(Tail(updates), known)
         ELSE <<Head(updates).id>>
                  \o NewIdsInOrder(Tail(updates), known \cup {Head(updates).id})

\* C23: the store keeps insertion order.  After appendRecords the records
\* read are the old ones, in their order, followed by the new ones in input
\* order; after updateRecords every old record's id is still at its
\* position and the new ids follow in the order the updates give them.
C23_InsertionOrderKept ==
    /\ (last.op = "appendRecords" /\ ~last.threw) =>
           LET before == read(last.pre)
               after == read(table)
           IN  /\ Len(after) = Len(before) + Len(last.arg)
               /\ \A i \in 1..Len(before) : after[i] = before[i]
               /\ \A k \in 1..Len(last.arg) :
                     after[Len(before) + k].url = last.arg[k].url
    /\ (last.op = "updateRecords" /\ ~last.threw) =>
           LET before == read(last.pre)
               after == read(table)
               added == NewIdsInOrder(last.arg, Ids(last.pre))
           IN  /\ Len(after) = Len(before) + Len(added)
               /\ \A i \in 1..Len(before) : after[i].id = before[i].id
               /\ \A k \in 1..Len(added) :
                     after[Len(before) + k].id = added[k]

\* C24: every record a scrapeSource pass creates has the five flags seen,
\* ok, called, active and archived equal to false, the name of the source
\* processed as its source and one of the candidate strings, as the browser
\* gave it, as its url: in the records appendRecords returns and in the
\* same records as read back from the file.
C24_CreatedRecordsHaveDefaults ==
    (last.op = "scrapeSource" /\ ~last.threw) =>
        LET after == read(table)
            n == Len(last.records)
        IN  \A k \in 1..n :
              LET r == last.records[k]
                  t == after[Len(after) - n + k]
              IN  /\ \A flag \in FlagFields :
                        /\ flag \in DOMAIN r /\ r[flag] = FALSE
                        /\ t[flag] = FALSE
                  /\ r.source = last.source /\ t.source = last.source
                  /\ \E i \in 1..Len(last.arg) : r.url = last.arg[i]
                  /\ t.url = r.url

\* C25: validation comes first and drops the invalid strings only.  What
\* extractUrls hands on is the valid entries of what the browser returned,
\* each as often as it occurs and no others; the pass does not fail
\* because of an invalid entry; every row of the store has a valid url; and
\* after a pass that did not throw every valid entry of the batch is in the
\* store, as it is or as a url with the same normalized form.
C25_InvalidDroppedValidProcessed ==
    /\ \A k \in 1..Len(table) : isValidUrl(table[k].url)
    /\ last.op = "extractUrls" =>
          /\ pc = "processing"
          /\ \A k \in 1..Len(urls) : isValidUrl(urls[k])
          /\ \A u \in Range(last.raw) :
                isValidUrl(u) =>
                    Cardinality({k \in 1..Len(urls) : urls[k] = u})
                      = Cardinality({i \in 1..Len(last.raw) : last.raw[i] = u})
    /\ (last.op = "scrapeSource" /\ ~last.threw) =>
          LET P == RemoveParamsOf(last.source)
          IN  \A u \in Range(last.raw) :
                isValidUrl(u) =>
                    \E k \in 1..Len(table) :
                        normalizeUrl(table[k].url, P) = normalizeUrl(u, P)

\* a batch with an invalid string before a valid one, whose valid entry
\* was appended
C25_Witness ==
    /\ last.op = "scrapeSource" /\ ~last.threw
    /\ Len(last.raw) = 2
    /\ ~isValidUrl(last.raw[1]) /\ isValidUrl(last.raw[2])
    /\ Len(last.records) = 1
    /\ last.records[1].url = last.raw[2]

\* the number of rows the passes logged so far added to the file
RECURSIVE RowsAdded(_)
RowsAdded(log) ==
    IF Len(log) = 0 THEN 0
    ELSE (IF Head(log).added > 0 THEN Head(log).added ELSE 0)
           + RowsAdded(Tail(log))

\* C26: the total scrapeAll returns is the number of records the run
\* appended to the store, whether or not some of its sources failed.
C26_TotalIsRecordsAppended ==
    (mode = "all" /\ pc = "done") => totalLinks = RowsAdded(runLog)

\* C27: a malformed candidate is always new to filterNewUrls: every
\* candidate that is not a valid URL is in the result, whatever the existing
\* set holds, the same malformed string included.
C27_MalformedCandidateAlwaysNew ==
    last.op = "filterNewUrls" =>
        \A i \in 1..Len(last.urls) :
            ~isValidUrl(last.urls[i]) =>
                \E k \in 1..Len(last.ret) : last.ret[k] = last.urls[i]

\* s is t with some of its elements left out
RECURSIVE IsSubsequence(_, _)
IsSubsequence(s, t) ==
    IF Len(s) = 0 THEN TRUE
    ELSE IF Len(t) = 0 THEN FALSE
    ELSE IF Head(s) = Head(t) THEN IsSubsequence(Tail(s), Tail(t))
    ELSE IsSubsequence(s, Tail(t))

\* C28: what filterNewUrls returns is a subsequence of the candidates:
\* candidate strings as they were given, in the order given; for no
\* candidates it returns none.
C28_ResultIsSubsequenceOfCandidates ==
    last.op = "filterNewUrls" =>
        /\ IsSubsequence(last.ret, last.urls)
        /\ Len(last.urls) = 0 => Len(last.ret) = 0

\* of two candidates the first is dropped as a duplicate and the second,
\* which normalization would change, is returned as given
C28_Witness ==
    /\ last.op = "filterNewUrls"
    /\ Len(last.urls) = 2 /\ Len(last.paramsToRemove) > 0
    /\ last.ret = <<last.urls[2]>>
    /\ normalizeUrl(last.urls[2], last.paramsToRemove) # last.urls[2]

\* C29: for a valid url and a non-empty parameter list normalizeUrl removes
\* the query parameters with a listed name and nothing else: the other
\* parameters stay, with their names, values and order; scheme, host and
\* path stay as they were written; and a url with none of the listed
\* parameters comes back as the same string.
C29_RemovesNamedParametersOnly ==
    (last.op = "normalizeUrl" /\ isValidUrl(last.url)
       /\ Len(last.paramsToRemove) > 0) =>
        LET named(p) == p.k \in Range(last.paramsToRemove)
            kept(p) == ~named(p)
        IN  /\ last.ret.query = SelectSeq(last.url.query, kept)
            /\ last.ret.path = last.url.path
            /\ last.ret.canon = last.url.canon
            /\ (\A i \in 1..Len(last.url.query) : kept(last.url.query[i]))
                  => last.ret = last.url

\* the store holds url, or a url with the same normalized form
KnownTo(rows, url, paramsToRemove) ==
    \E i \in 1..Len(rows) :
        normalizeUrl(rows[i].url, paramsToRemove) = normalizeUrl(url, paramsToRemove)

\* C32: a scrapeSource pass for which the browser gave no valid url, or
\* only urls the store already knows, returns 0 and leaves the file as it
\* was.
C32_NothingNewNothingWritten ==
    (last.op = "scrapeSource"
       /\ \A u \in Range(last.arg) :
              KnownTo(last.pre, u, RemoveParamsOf(last.source))) =>
        /\ ~last.threw /\ last.ret = 0
        /\ table = last.pre

----------------------------------------------------------------------------
(* scraper/browser.ts under scrapeSource: the steps of one call in which   *)
(* the browser is used.  browser.launched: this.browser holds a running    *)
(* browser; pages: pages open in it; page: executeCommand's variable page  *)
(* is set; pageOpen: the page this executeCommand opened is open; command: *)
(* executeCommand has not been called, is running, returned or threw;      *)
(* failed: an error is on its way to scrapeSource's caller.                *)

MaxPasses == 3      \* scrapeSource calls on one BrowserController

InitBrowser ==
    /\ table = <<>>
    /\ everIds = {}
    /\ Idle /\ Constructed
    /\ gist = <<>> /\ csvData = <<>> /\ hasChanges = FALSE /\ uiSteps = 0
    /\ ioFailed = FALSE
    /\ calls = 0
    /\ last = [op |-> "none"]

UnchangedButBrowser ==
    /\ UNCHANGED <<table, everIds, ioFailed, calls, last, fileExists, storage,
                   writer, sync, loader>>
    /\ UnchangedRun /\ UnchangedUI

\* an error leaves executeCommand without its finally block closing a
\* page, because page is still null
CommandThrowsNoPage ==
    [browser EXCEPT !.pc = "finally", !.command = "threw", !.failed = TRUE]

\* scrapeSource(source): an unknown name throws at once, a known one goes
\* on to extractUrls -> executeCommand -> navigateTo
ScrapeSourceCall ==
    \E known \in BOOLEAN :
        /\ browser.pc \in {"idle", "returned", "threw"}
        /\ browser.passes < MaxPasses
        /\ browser' = [browser EXCEPT
                          !.pc = IF known THEN "navigate" ELSE "finally",
                          !.command = IF known THEN "running" ELSE "none",
                          !.page = FALSE, !.pageOpen = FALSE,
                          !.failed = ~known,
                          !.passes = @ + 1]
        /\ UnchangedButBrowser

\* navigateTo: if (!this.browser) await this.launch()
NavigateLaunch ==
    \E launchFails \in BOOLEAN :
        /\ browser.pc = "navigate"
        /\ browser' =
              IF browser.launched THEN [browser EXCEPT !.pc = "newPage"]
              ELSE IF launchFails THEN CommandThrowsNoPage
              ELSE [browser EXCEPT !.pc = "newPage", !.launched = TRUE]
        /\ UnchangedButBrowser

\* navigateTo: const page = await this.browser.newPage()
NavigateNewPage ==
    \E newPageFails \in BOOLEAN :
        /\ browser.pc = "newPage"
        /\ browser' =
              IF newPageFails THEN CommandThrowsNoPage
              ELSE [browser EXCEPT !.pc = "goto", !.pages = @ + 1,
                                   !.pageOpen = TRUE]
        /\ UnchangedButBrowser

\* navigateTo: setUserAgent, setViewport, page.goto; on success the page
\* is returned and executeCommand assigns it, on failure navigateTo
\* rethrows and the page it created is referenced by nothing
NavigateGoto ==
    \E gotoFails \in BOOLEAN :
        /\ browser.pc = "goto"
        /\ browser' =
              IF gotoFails THEN CommandThrowsNoPage
              ELSE [browser EXCEPT !.pc = "evaluate", !.page = TRUE]
        /\ UnchangedButBrowser

\* executeCommand: sleep, page.evaluate; then the finally block is next
Evaluate ==
    \E evaluateFails \in BOOLEAN :
        /\ browser.pc = "evaluate"
        /\ browser' = [browser EXCEPT !.pc = "pageClose",
                                      !.failed = evaluateFails]
        /\ UnchangedButBrowser

\* executeCommand's finally: if (page) await page.close(); an error of
\* page.close() leaves the function as its error
PageClose ==
    \E closeFails \in BOOLEAN :
        /\ browser.pc = "pageClose"
        /\ browser' =
              IF closeFails
              THEN [browser EXCEPT !.pc = "finally", !.command = "threw",
                                   !.failed = TRUE]
              ELSE [browser EXCEPT
                      !.pc = IF browser.failed THEN "finally" ELSE "store",
                      !.command = IF browser.failed THEN "threw"
                                  ELSE "returned",
                      !.pages = @ - 1, !.pageOpen = FALSE]
        /\ UnchangedButBrowser

\* the rest of scrapeSource's try block: the store calls succeed or throw
StorePart ==
    \E storeFails \in BOOLEAN :
        /\ browser.pc = "store"
        /\ browser' = [browser EXCEPT !.pc = "finally", !.failed = storeFails]
        /\ UnchangedButBrowser

\* scrapeSource's finally: BrowserController.close, which does nothing
\* without a browser and swallows an error of browser.close(), leaving
\* this.browser set
BrowserClose ==
    \E closeFails \in BOOLEAN :
        /\ browser.pc = "finally"
        /\ LET exit == IF browser.failed THEN "threw" ELSE "returned"
           IN  browser' =
                 IF browser.launched /\ ~closeFails
                 THEN [browser EXCEPT !.pc = exit, !.launched = FALSE,
                                      !.pages = 0, !.pageOpen = FALSE]
                 ELSE [browser EXCEPT !.pc = exit]
        /\ UnchangedButBrowser

NextBrowser ==
    \/ ScrapeSourceCall \/ NavigateLaunch \/ NavigateNewPage \/ NavigateGoto
    \/ Evaluate \/ PageClose \/ StorePart \/ BrowserClose

SpecBrowser == InitBrowser /\ [][NextBrowser]_vars

C33_BrowserResourcesClosed ==
    /\ browser.pc \in {"returned", "threw"} => ~browser.launched
    /\ browser.command \in {"returned", "threw"} => ~browser.pageOpen

----------------------------------------------------------------------------
(* isValidUrl on its own (utils/helpers.ts): the strings it is given are   *)
(* scheme ":" ["//"] host path, each part possibly empty, and new URL      *)
(* decides as the URL parser does without a base                           *)

Schemes == {"", "http", "https", "ftp", "mailto", "javascript", "foo"}

\* the schemes the URL parser calls special: they need a host
SpecialSchemes == {"http", "https", "ftp"}

\* "x y" holds a space, which no host may
Hosts == {"", "x", "x y"}

Paths == {"", "/a"}

\* new URL(string): ok is FALSE where the constructor throws TypeError;
\* host is the host of the URL object.  Without a scheme there is no
\* absolute URL.  After a special scheme the slashes are skipped, what
\* follows up to the next slash is the host, and an empty host is an
\* error.  After another scheme a host exists only behind "//" and may be
\* empty; without "//" the rest is the path.
NewURL(scheme, slashes, host, path) ==
    IF scheme = "" THEN [ok |-> FALSE, host |-> ""]
    ELSE IF host = "x y" /\ (slashes \/ scheme \in SpecialSchemes)
         THEN [ok |-> FALSE, host |-> ""]
    ELSE IF scheme \in SpecialSchemes
         THEN IF host # "" THEN [ok |-> TRUE, host |-> host]
              ELSE IF path = "/a" THEN [ok |-> TRUE, host |-> "a"]
              ELSE [ok |-> FALSE, host |-> ""]
    ELSE [ok |-> TRUE, host |-> IF slashes THEN host ELSE ""]

\* the string with these parts; valid: new URL accepts it
CandidateString(scheme, slashes, host, path) ==
    [scheme |-> scheme, slashes |-> slashes, host |-> host, path |-> path,
     valid |-> NewURL(scheme, slashes, host, path).ok]

Candidates ==
    {CandidateString(sc, sl, h, p) :
        sc \in Schemes, sl \in BOOLEAN, h \in Hosts, p \in Paths}

InitValid ==
    /\ table = <<>>
    /\ everIds = {}
    /\ Idle /\ Constructed
    /\ gist = <<>> /\ csvData = <<>> /\ hasChanges = FALSE /\ uiSteps = 0
    /\ ioFailed = FALSE
    /\ calls = 0
    /\ \E c \in Candidates : last = [op |-> "input", url |-> c]

\* isValidUrl(url): the catch block turns every error into false
IsValidUrl ==
    /\ last.op = "input"
    /\ last' = [op |-> "isValidUrl", url |-> last.url,
                ret |-> isValidUrl(last.url), threw |-> FALSE]
    /\ UNCHANGED <<table, everIds, ioFailed, calls>>
    /\ UnchangedRun /\ UnchangedUI /\ UnchangedOthers

NextValid == IsValidUrl

SpecValid == InitValid /\ [][NextValid]_vars

\* C38: isValidUrl never throws, returns false for every string that
\* does not parse, and returns true exactly for the strings that parse as
\* an absolute URL with a recognized scheme and a host.
C38_ValidIffSchemeAndHost ==
    last.op = "isValidUrl" =>
        LET u == last.url
            parsed == NewURL(u.scheme, u.slashes, u.host, u.path)
        IN  /\ ~last.threw
            /\ ~parsed.ok => ~last.ret
            /\ last.ret <=> (/\ parsed.ok
                             /\ u.scheme \in SpecialSchemes
                             /\ parsed.host # "")

====
